---- MODULE Spec2Model ----
(***************************************************************************)
(* Model of src/src/routes/csv_analyzer_simple.py: the upload_csv request  *)
(* handler, the concurrent image download of find_similar_products_simple, *)
(* its greedy single-seed clustering loop, the scoring functions and the   *)
(* CSV normalizer; and of scrape_ebay_titles of title_scraper.py.          *)
(*                                                                         *)
(* Conventions                                                             *)
(*  - Python list positions and enumerate() indices are 0-based; here they *)
(*    are 1-based (index k here is index k-1 in the code).                 *)
(*  - A float in [..] is an exact fraction <<num, den>> with den > 0;      *)
(*    comparisons are done by cross-multiplication.                        *)
(*  - A title is a sequence of one-character strings.                      *)
(*  - A perceptual hash is the number k standing for the 64-bit vector     *)
(*    whose k low bits are set, so hash1 - hash2 (Hamming distance) is     *)
(*    the absolute difference.                                             *)
(*  - Python None is the string "None" for an image, and the empty         *)
(*    sequence for a hash, which is <<k>> when present.                    *)
(***************************************************************************)
EXTENDS Integers, Sequences, FiniteSets, TLC

\* ------------------------------------------------------------------ bounds
MaxRecords == 4
MaxFaultRecords == 3
MaxPoolTasks == 22
MaxHashCalls == 4
MaxFilterRecords == 3
MaxFiles == 2
MaxLines == 3
MaxGroups == 2
MaxPagesArg == 5

\* ------------------------------------------------------- program constants
max_workers == 20
max_hash_diff == 64

None == "None"

\* --------------------------------------------------------------- fractions
Frac(n, d) == <<n, d>>
Zero == Frac(0, 1)
One == Frac(1, 1)
Leq(a, b) == a[1] * b[2] <= b[1] * a[2]
Lt(a, b) == a[1] * b[2] < b[1] * a[2]
FEq(a, b) == a[1] * b[2] = b[1] * a[2]
Abs(x) == IF x < 0 THEN -x ELSE x
\* Python max(0, x): the first argument unless the second is greater
Max0(a) == IF Lt(Zero, a) THEN a ELSE Zero

\* ------------------------------------------------------------------ titles
Whitespace == {" "}
\* str.lower() on the alphabet of the model
Lower(c) == CASE c = "A" -> "a" [] c = "B" -> "b" [] c = "C" -> "c" [] OTHER -> c
LowerStr(s) == [k \in 1..Len(s) |-> Lower(s[k])]
\* str.split(): the maximal runs of non-whitespace characters
RECURSIVE SplitFrom(_, _, _)
SplitFrom(s, k, cur) ==
    IF k > Len(s)
    THEN IF cur = <<>> THEN {} ELSE {cur}
    ELSE IF s[k] \in Whitespace
         THEN (IF cur = <<>> THEN {} ELSE {cur}) \cup SplitFrom(s, k + 1, <<>>)
         ELSE SplitFrom(s, k + 1, Append(cur, s[k]))
Split(s) == SplitFrom(s, 1, <<>>)

calculate_title_similarity(title1, title2) ==
    LET words1 == Split(LowerStr(title1))
        words2 == Split(LowerStr(title2))
        intersection == words1 \cap words2
        union == words1 \cup words2
    IN  IF Cardinality(union) = 0
        THEN Zero
        ELSE Frac(Cardinality(intersection), Cardinality(union))

\* ------------------------------------------------------------------ prices
PyMax(a, b) == IF b > a THEN b ELSE a

calculate_price_similarity(price1, price2) ==
    IF price1 = 0 \/ price2 = 0
    THEN Zero
    ELSE LET diff == Abs(price1 - price2)
             m == PyMax(price1, price2)
             \* 1 - diff / m, written over a positive denominator
             raw == IF m > 0 THEN Frac(m - diff, m) ELSE Frac(diff - m, -m)
         IN  Max0(raw)

\* ------------------------------------------------------------ quick filter
min_title_similarity == Frac(3, 10)
max_price_diff == Frac(5, 10)

\* (mutant) the filter lets every pair through
quick_filter_pass_all(product1, product2) == TRUE
quick_filter_by_title_and_price(product1, product2) ==
    LET title_sim == calculate_title_similarity(product1.title, product2.title)
        price1 == product1.price_numeric
        price2 == product2.price_numeric
    IN  IF Lt(title_sim, min_title_similarity)
        THEN FALSE
        ELSE IF price1 > 0 /\ price2 > 0
                  /\ Lt(max_price_diff,
                        Frac(Abs(price1 - price2), PyMax(price1, price2)))
             THEN FALSE
             ELSE TRUE

\* ------------------------------------------------------------ image hashes
Images == {"X", "Y"}
\* imagehash.phash of the two pictures of the model: 16 of 64 bits differ
phash(image) == IF image = "X" THEN <<0>> ELSE <<16>>
NoHash == <<>>

\* a decoded image whose pixel data cannot be loaded: imagehash.phash raises
Broken == "Z"

\* (mutant) the hash is recomputed and stored again on every call
calculate_image_hash_fresh(image, url, cache) ==
    IF image \notin Images
    THEN <<NoHash, cache>>
    ELSE IF url # ""
         THEN <<phash(image),
                [u \in DOMAIN cache \cup {url} |->
                    IF u = url THEN phash(image) ELSE cache[u]]>>
         ELSE <<phash(image), cache>>
\* calculate_image_hash: <<hash, cache after the call>>
calculate_image_hash(image, url, cache) ==
    IF url # "" /\ url \in DOMAIN cache
    THEN <<cache[url], cache>>
    ELSE IF image \notin Images
         THEN <<NoHash, cache>>
         ELSE IF url # ""
              THEN <<phash(image), cache @@ (url :> phash(image))>>
              ELSE <<phash(image), cache>>

image_hash_similarity(hash1, hash2) ==
    IF hash1 = NoHash \/ hash2 = NoHash
    THEN Zero
    ELSE Max0(Frac(max_hash_diff - Abs(hash1[1] - hash2[1]), max_hash_diff))

\* ------------------------------------------------------------------ scorer
\* (mutant) the except branch reports a perfect match
OneResult ==
    [comprehensive_score |-> One, image_similarity |-> One,
     title_similarity |-> One, price_similarity |-> One]
\* lines 211-217
ZeroResult ==
    [comprehensive_score |-> Zero, image_similarity |-> Zero,
     title_similarity |-> Zero, price_similarity |-> Zero]

\* 0.4 * i + 0.4 * t + 0.2 * p  =  (2i + 2t + p) / 5
WeightedSum(i, t, p) ==
    Frac(2 * i[1] * t[2] * p[2] + 2 * t[1] * i[2] * p[2] + p[1] * i[2] * t[2],
         5 * i[2] * t[2] * p[2])

\* calculate_comprehensive_similarity: <<result, cache after the call>>;
\* raises = TRUE takes the except branch
calculate_comprehensive_similarity(product1, product2, img1, img2, cache, raises) ==
    IF raises
    THEN <<ZeroResult, cache>>
    ELSE LET both == img1 # None /\ img2 # None
             h1 == calculate_image_hash(img1, product1.image_url, cache)
             h2 == calculate_image_hash(img2, product2.image_url, h1[2])
             image_similarity ==
                 IF both THEN image_hash_similarity(h1[1], h2[1]) ELSE Zero
             title_similarity ==
                 calculate_title_similarity(product1.title, product2.title)
             price_similarity ==
                 calculate_price_similarity(product1.price_numeric,
                                            product2.price_numeric)
         IN  <<[comprehensive_score |->
                    WeightedSum(image_similarity, title_similarity, price_similarity),
                image_similarity |-> image_similarity,
                title_similarity |-> title_similarity,
                price_similarity |-> price_similarity],
               IF both THEN h2[2] ELSE cache>>

\* ---------------------------------------------------------- request inputs
\* The rows a request can carry: three listings, and a short row whose
\* missing cells make row.get(...).strip() raise inside parse_csv_data.
ProdA == [image_url |-> "u1", title |-> <<"a", " ", "b">>, price_numeric |-> 10]
ProdD == [image_url |-> "u2", title |-> <<"A", " ", "c">>, price_numeric |-> 0]
ProdC == [image_url |-> "", title |-> <<"a", " ", "b">>, price_numeric |-> 10]
ShortRow == [short |-> TRUE]
Catalogue == {ProdA, ProdD, ProdC}
Rows == Catalogue \cup {ShortRow}
\* what the remote server may answer for a URL (the picture behind u2 can
\* change, the host of "dead" never answers)
Served(url) ==
    CASE url = "u1" -> {"X"}
      [] url = "dead" -> {}
      [] OTHER -> Images
\* similarity_threshold: the default of line 219 and two other caller choices
DefaultThreshold == Frac(5, 10)
Thresholds == {Frac(3, 10), DefaultThreshold, Frac(7, 10)}

SeqsUpTo(S, n) == UNION {[1..k -> S] : k \in 0..n}

\* parse_csv_data: the rows that parse without raising, in row order
parse_csv_data(rows) == SelectSeq(rows, LAMBDA r : r # ShortRow)

VARIABLES
    caller,               \* "upload_csv" or "direct" (find_similar_products_simple called directly)
    rows,                 \* the request's rows (upload_csv) or products (direct); <<>> once read
    similarity_threshold,
    pc,                   \* "request", "fetch", "seed", "cand", "done"
    all_products,
    queue,                \* submitted downloads waiting for a pool worker, in submission order
    running,              \* downloads in flight
    finished,             \* completed futures not yet yielded by as_completed: index -> outcome
    images,
    valid_products,       \* sequence of original indices (the product is all_products[index])
    i, j,
    current_group,
    processed,
    similar_groups,       \* group_id g of the code is position g + 1
    comparisons_made,
    comparisons_skipped,
    image_hash_cache,
    similarity_result,    \* the local of line 288: <<result of the latest scoring>>, <<>> before
    filtered,             \* history: pairs <<idx1, idx2>> handed to the quick filter
    scored,               \* history: <<idx1, idx2, result>> of every call of the scorer
    inject,               \* TRUE when scoring may take its except branch
    response              \* "none"; HTTP status "200", "400", "500"; "returned", "raised"

vars == <<caller, rows, similarity_threshold, pc, all_products, queue, running,
          finished, images, valid_products, i, j, current_group, processed,
          similar_groups, comparisons_made, comparisons_skipped,
          image_hash_cache, similarity_result, filtered, scored, inject, response>>

EmptyMap == [k \in {} |-> None]

InitCommon ==
    /\ pc = "request"
    /\ all_products = <<>>
    /\ queue = <<>>
    /\ running = {}
    /\ finished = EmptyMap
    /\ images = EmptyMap
    /\ valid_products = <<>>
    /\ i = 0
    /\ j = 0
    /\ current_group = <<>>
    /\ processed = {}
    /\ similar_groups = <<>>
    /\ comparisons_made = 0
    /\ comparisons_skipped = 0
    /\ image_hash_cache = EmptyMap
    /\ similarity_result = <<>>
    /\ filtered = {}
    /\ scored = {}
    /\ response = "none"

InitRequest ==
    \/ /\ caller = "upload_csv"
       /\ rows \in SeqsUpTo(Rows, MaxRecords)
       /\ similarity_threshold = DefaultThreshold
    \/ /\ caller = "direct"
       /\ rows \in SeqsUpTo(Catalogue, MaxRecords)
       /\ similarity_threshold \in Thresholds \ {DefaultThreshold}

Init == InitCommon /\ InitRequest /\ inject = FALSE

\* ------------------------------------------------------------- fetch phase
\* line 230: a download is submitted for every product with a non-empty image_url
Submitted(products) == {k \in 1..Len(products) : products[k].image_url # ""}

Ascending(S) ==
    [k \in 1..Cardinality(S) |->
        CHOOSE x \in S : Cardinality({y \in S : y <= x}) = k]

\* (mutant) every submitted download is started at once
FirstNAll(s, n) == s
FirstN(s, n) == SubSeq(s, 1, IF n < Len(s) THEN n ELSE Len(s))
DropN(s, n) == SubSeq(s, (IF n < Len(s) THEN n ELSE Len(s)) + 1, Len(s))
Range(s) == {s[k] : k \in 1..Len(s)}

\* lines 221-232 (and 253-264 when nothing was submitted)
EnterFind(products) ==
    LET order == Ascending(Submitted(products))
    IN  /\ all_products' = products
        /\ rows' = <<>>
        /\ running' = Range(FirstN(order, max_workers))
        /\ queue' = DropN(order, max_workers)
        /\ pc' = IF order = <<>> THEN "seed" ELSE "fetch"
        /\ i' = IF order = <<>> THEN 1 ELSE 0
        /\ UNCHANGED <<caller, similarity_threshold, finished, images,
                       valid_products, j, current_group, processed,
                       similar_groups, comparisons_made, comparisons_skipped,
                       image_hash_cache, similarity_result, filtered, scored,
                       inject>>

\* upload_csv, lines 326-352
upload_csv ==
    /\ pc = "request"
    /\ caller = "upload_csv"
    /\ LET products == parse_csv_data(rows)
       IN  IF products = <<>>
           THEN /\ response' = "400"
                /\ pc' = "done"
                /\ rows' = <<>>
                /\ UNCHANGED <<caller, similarity_threshold, all_products, queue,
                               running, finished, images, valid_products, i, j,
                               current_group, processed, similar_groups,
                               comparisons_made, comparisons_skipped,
                               image_hash_cache, similarity_result, filtered,
                               scored, inject>>
           ELSE /\ EnterFind(products)
                /\ UNCHANGED response

\* a direct call of find_similar_products_simple(products, similarity_threshold)
DirectCall ==
    /\ pc = "request"
    /\ caller = "direct"
    /\ EnterFind(rows)
    /\ UNCHANGED response

\* what future.result() gives for download_image(url): an image, None on any
\* failure download_image catches, or (injected) an exception out of the task
Raised == "raised"
Outcomes(url, faulty) ==
    Served(url) \cup {None} \cup (IF faulty THEN {Raised} ELSE {})

\* a pool worker finishes download_image (lines 23-40) and takes the next queued one
Complete(idx) ==
    /\ pc = "fetch"
    /\ idx \in running
    /\ \E outcome \in Outcomes(all_products[idx].image_url, inject) :
           finished' = finished @@ (idx :> outcome)
    /\ running' = (running \ {idx}) \cup Range(FirstN(queue, 1))
    /\ queue' = DropN(queue, 1)
    /\ UNCHANGED <<caller, rows, similarity_threshold, pc, all_products, images,
                   valid_products, i, j, current_group, processed, similar_groups,
                   comparisons_made, comparisons_skipped, image_hash_cache,
                   similarity_result, filtered, scored, inject, response>>

\* (mutant) a record is kept only when its download gave an image
KeepProductIfImage(valid, idx, outcome) ==
    IF outcome \in Images THEN Append(valid, idx) ELSE valid
\* lines 240-251: the record joins valid_products whatever the outcome
KeepProduct(valid, idx, outcome) == Append(valid, idx)
\* lines 242-243
StoreImage(imgs, idx, outcome) ==
    IF outcome \in Images THEN imgs @@ (idx :> outcome) ELSE imgs

Restrict(f, S) == [k \in S |-> f[k]]

\* (mutant) the loop is left as soon as nothing completed waits to be yielded
AllYieldedEarly(run, fin, idx) == DOMAIN fin = {idx}
\* line 234: as_completed is exhausted when idx is the last future of the batch
AllYielded(run, fin, idx) == run = {} /\ DOMAIN fin = {idx}

\* one iteration of the as_completed loop, lines 234-251; after the last one
\* the pool is left and clustering starts (lines 253-264)
Yield(idx) ==
    /\ pc = "fetch"
    /\ idx \in DOMAIN finished
    /\ images' = StoreImage(images, idx, finished[idx])
    /\ valid_products' = KeepProduct(valid_products, idx, finished[idx])
    /\ finished' = Restrict(finished, DOMAIN finished \ {idx})
    /\ IF AllYielded(running, finished, idx)
       THEN pc' = "seed" /\ i' = 1
       ELSE UNCHANGED <<pc, i>>
    /\ UNCHANGED <<caller, rows, similarity_threshold, all_products, queue,
                   running, j, current_group, processed, similar_groups,
                   comparisons_made, comparisons_skipped, image_hash_cache,
                   similarity_result, filtered, scored, inject, response>>

\* ----------------------------------------------------------- cluster phase
\* images.get(idx)
ImageOf(imgs, idx) == IF idx \in DOMAIN imgs THEN imgs[idx] ELSE None

\* line 270
SeedEntry(products, idx) == [product |-> products[idx], index |-> idx]
\* lines 299-303
MemberEntry(products, idx, result) ==
    [product |-> products[idx], index |-> idx, similarity_details |-> result]
\* (mutant) the processed set remembers the latest record only
MarkProcessedLatest(done, idx) == {idx}
\* (mutant) the processed set is never extended
MarkProcessedNever(done, idx) == done
\* lines 271 and 304
MarkProcessed(done, idx) == done \cup {idx}

\* lines 292-296
HighSimilarity == Frac(8, 10)
RelaxedThreshold == Frac(4, 10)
\* (mutant) the relaxed threshold is applied to every pair
adjusted_threshold_always(result, threshold) == RelaxedThreshold
\* (mutant) the rule raises the threshold instead of relaxing it
adjusted_threshold_raised(result, threshold) ==
    IF Lt(HighSimilarity, result.title_similarity)
       /\ Lt(HighSimilarity, result.price_similarity)
    THEN HighSimilarity
    ELSE threshold
adjusted_threshold(result, threshold) ==
    IF Lt(HighSimilarity, result.title_similarity)
       /\ Lt(HighSimilarity, result.price_similarity)
    THEN RelaxedThreshold
    ELSE threshold
\* line 298
Accepts(result, threshold) ==
    Leq(adjusted_threshold(result, threshold), result.comprehensive_score)

\* (mutant) every group is emitted, singletons included
EmitGroupAlways(groups, group) == Append(groups, group)
\* lines 308-310
EmitGroup(groups, group) ==
    IF Len(group) > 1 THEN Append(groups, group) ELSE groups

\* lines 266-271: the outer loop takes the next record; a processed one is skipped
SeedStep ==
    /\ pc = "seed"
    /\ i <= Len(valid_products)
    /\ LET idx1 == valid_products[i]
       IN  IF idx1 \in processed
           THEN /\ i' = i + 1
                /\ UNCHANGED <<pc, j, current_group, processed>>
           ELSE /\ current_group' = <<SeedEntry(all_products, idx1)>>
                /\ processed' = MarkProcessed(processed, idx1)
                /\ j' = i + 1
                /\ pc' = "cand"
                /\ UNCHANGED i
    /\ UNCHANGED <<caller, rows, similarity_threshold, all_products, queue,
                   running, finished, images, valid_products, similar_groups,
                   comparisons_made, comparisons_skipped, image_hash_cache,
                   similarity_result, filtered, scored, inject, response>>

\* (mutant) the inner loop looks at the same candidate again
NextCandidateSame(pos) == pos
\* line 273: enumerate(...) moves on to the next candidate
NextCandidate(pos) == pos + 1

\* lines 273-306: one iteration of the inner loop
CandStep ==
    /\ pc = "cand"
    /\ j <= Len(valid_products)
    /\ j' = NextCandidate(j)
    /\ LET idx1 == valid_products[i]
           idx2 == valid_products[j]
           product1 == all_products[idx1]
           product2 == all_products[idx2]
       IN  IF idx2 \in processed
           THEN UNCHANGED <<current_group, processed, comparisons_made,
                            comparisons_skipped, image_hash_cache,
                            similarity_result, filtered, scored>>
           ELSE IF ~quick_filter_by_title_and_price(product1, product2)
           THEN /\ comparisons_skipped' = comparisons_skipped + 1
                /\ filtered' = filtered \cup {<<idx1, idx2>>}
                /\ UNCHANGED <<current_group, processed, comparisons_made,
                               image_hash_cache, similarity_result, scored>>
           ELSE \E raises \in (IF inject THEN BOOLEAN ELSE {FALSE}) :
                LET call == calculate_comprehensive_similarity(
                                product1, product2, ImageOf(images, idx1),
                                ImageOf(images, idx2), image_hash_cache, raises)
                    result == call[1]
                IN  /\ comparisons_made' = comparisons_made + 1
                    /\ filtered' = filtered \cup {<<idx1, idx2>>}
                    /\ scored' = scored \cup {<<idx1, idx2, result>>}
                    /\ similarity_result' = <<result>>
                    /\ image_hash_cache' = call[2]
                    /\ IF Accepts(result, similarity_threshold)
                       THEN /\ current_group' =
                                   Append(current_group,
                                          MemberEntry(all_products, idx2, result))
                            /\ processed' = MarkProcessed(processed, idx2)
                       ELSE UNCHANGED <<current_group, processed>>
                    /\ UNCHANGED comparisons_skipped
    /\ UNCHANGED <<caller, rows, similarity_threshold, pc, all_products, queue,
                   running, finished, images, valid_products, i, similar_groups,
                   inject, response>>

\* lines 308-315: the inner loop is over; a group of two or more is emitted
EndSeed ==
    /\ pc = "cand"
    /\ j > Len(valid_products)
    /\ similar_groups' = EmitGroup(similar_groups, current_group)
    /\ current_group' = <<>>
    /\ i' = i + 1
    /\ pc' = "seed"
    /\ UNCHANGED <<caller, rows, similarity_threshold, all_products, queue,
                   running, finished, images, valid_products, j, processed,
                   comparisons_made, comparisons_skipped, image_hash_cache,
                   similarity_result, filtered, scored, inject, response>>

\* line 320: comparisons_skipped / (comparisons_made + comparisons_skipped)
StatsRaise(made, skipped) == made + skipped = 0

\* lines 317-322, then upload_csv lines 352-376 (or the return to a direct caller)
Finish ==
    /\ pc = "seed"
    /\ i > Len(valid_products)
    /\ pc' = "done"
    /\ response' =
         IF StatsRaise(comparisons_made, comparisons_skipped)
         THEN (IF caller = "upload_csv" THEN "500" ELSE "raised")
         ELSE (IF caller = "upload_csv" THEN "200" ELSE "returned")
    /\ UNCHANGED <<caller, rows, similarity_threshold, all_products, queue,
                   running, finished, images, valid_products, i, j,
                   current_group, processed, similar_groups, comparisons_made,
                   comparisons_skipped, image_hash_cache, similarity_result,
                   filtered, scored, inject>>

Next ==
    \/ upload_csv
    \/ DirectCall
    \/ \E idx \in 1..MaxRecords : Complete(idx)
    \/ \E idx \in 1..MaxRecords : Yield(idx)
    \/ SeedStep
    \/ CandStep
    \/ EndSeed
    \/ Finish

Spec == Init /\ [][Next]_vars

\* The same request handler with faults injected: a scoring call may take its
\* except branch and a download task may end in an exception.
InitFault ==
    /\ InitCommon
    /\ caller = "upload_csv"
    /\ rows \in SeqsUpTo(Rows, MaxFaultRecords)
    /\ similarity_threshold = DefaultThreshold
    /\ inject = TRUE

NextFault ==
    \/ upload_csv
    \/ \E idx \in 1..MaxFaultRecords : Complete(idx)
    \/ \E idx \in 1..MaxFaultRecords : Yield(idx)
    \/ SeedStep
    \/ CandStep
    \/ EndSeed
    \/ Finish

SpecFault == InitFault /\ [][NextFault]_vars

\* ------------------------------------------------------ the CSV normalizer
\* parse_csv_data cell by cell. Cells, and the fields made of them, are
\* sequences of characters. The header has the columns image, title, price
\* and, when has_volume, sales volume, in this order; a line is the cells the
\* reader splits it into. Of the six columns the code reads, the product URL
\* and the last-sold time are left out: they are only stripped, as the image
\* URL is.
Digits == <<"0", "1", "2", "3", "4", "5", "6", "7", "8", "9">>
IsDigit(c) == \E d \in 1..10 : Digits[d] = c
DigitVal(c) == (CHOOSE d \in 1..10 : Digits[d] = c) - 1
\* the superscript two, a character str.isdigit() accepts and int() does not
Superscript == "sup2"
Front(s) == SubSeq(s, 1, Len(s) - 1)
RECURSIVE IntOf(_)
IntOf(s) == IF s = <<>> THEN 0 ELSE 10 * IntOf(Front(s)) + DigitVal(s[Len(s)])
RECURSIVE Pow10(_)
Pow10(k) == IF k = 0 THEN 1 ELSE 10 * Pow10(k - 1)

\* the euro sign
Euro == "EUR"
\* str.strip()
RECURSIVE Strip(_)
Strip(s) ==
    IF s = <<>> THEN s
    ELSE IF s[1] \in Whitespace THEN Strip(Tail(s))
    ELSE IF s[Len(s)] \in Whitespace THEN Strip(Front(s))
    ELSE s
\* str.replace(old, new) for single characters; new = <<>> removes
Replace(s, old, new) ==
    IF new = <<>>
    THEN SelectSeq(s, LAMBDA c : c # old)
    ELSE [k \in 1..Len(s) |-> IF s[k] = old THEN new[1] ELSE s[k]]

\* float(s) for decimal literals: [sign] digits [. digits], one digit at least
Unsigned(s) == IF s # <<>> /\ s[1] \in {"-", "+"} THEN Tail(s) ELSE s
FloatRaises(s) ==
    LET body == Unsigned(s)
        digits == SelectSeq(body, LAMBDA c : c # ".")
    IN  \/ digits = <<>>
        \/ Len(body) - Len(digits) > 1
        \/ \E k \in 1..Len(digits) : ~IsDigit(digits[k])
FloatOf(s) ==
    LET body == Unsigned(s)
        digits == SelectSeq(body, LAMBDA c : c # ".")
        dot == {k \in 1..Len(body) : body[k] = "."}
        decimals == IF dot = {} THEN 0 ELSE Len(body) - (CHOOSE k \in dot : TRUE)
        sign == IF s[1] = "-" THEN -1 ELSE 1
    IN  Frac(sign * IntOf(digits), Pow10(decimals))

\* lines 72-79
parse_price(price_str) ==
    LET price_clean == Strip(Replace(Replace(price_str, Euro, <<>>), ",", <<".">>))
    IN  IF FloatRaises(price_clean) THEN Zero ELSE FloatOf(price_clean)

\* str.isdigit() and int() on the characters of the model
isdigit(s) ==
    s # <<>> /\ \A k \in 1..Len(s) : IsDigit(s[k]) \/ s[k] = Superscript
IntRaises(s) == s = <<>> \/ \E k \in 1..Len(s) : ~IsDigit(s[k])

\* a field longer than csv.field_size_limit(): the reader raises csv.Error
\* when the loop of line 88 asks for the line that holds it
Oversized == <<"#">>
ReaderRaises(line) == \E k \in 1..Len(line) : line[k] = Oversized

\* row.get(key, default): <<cell>>, or <<>> for the None that DictReader
\* puts where a short line has no cell
Get(has_column, line, k, default) ==
    IF ~has_column THEN <<default>>
    ELSE IF k <= Len(line) THEN <<line[k]>> ELSE <<>>

\* lines 89-114, one row: <<product>>, or <<>> when the row raises
ParseRow(has_volume, line) ==
    LET image_url == Get(TRUE, line, 1, <<>>)
        title == Get(TRUE, line, 2, <<>>)
        price_without_tax == Get(TRUE, line, 3, <<>>)
        volume_cell == Get(has_volume, line, 4, <<"1">>)
    IN  IF \/ image_url = <<>> \/ title = <<>>
           \/ price_without_tax = <<>> \/ volume_cell = <<>>
        THEN <<>>
        ELSE LET stripped == Strip(volume_cell[1])
                 sales_volume == IF stripped = <<>> THEN <<"1">> ELSE stripped
                 price == parse_price(Strip(price_without_tax[1]))
             IN  IF isdigit(sales_volume) /\ IntRaises(sales_volume)
                 THEN <<>>
                 ELSE LET volume == IF isdigit(sales_volume)
                                    THEN IntOf(sales_volume) ELSE 1
                      IN  <<[image_url |-> Strip(image_url[1]),
                             title |-> Strip(title[1]),
                             sales_volume |-> sales_volume,
                             total_sales |-> Frac(price[1] * volume, price[2]),
                             price_numeric |-> price,
                             volume_numeric |-> volume]>>

RECURSIVE ParseRows(_, _)
ParseRows(has_volume, lines) ==
    IF lines = <<>> THEN <<>>
    ELSE ParseRow(has_volume, Head(lines)) \o ParseRows(has_volume, Tail(lines))

\* parse_csv_data, lines 81-119, on the file [has_volume, lines]
parse_csv_rows(csv_content) ==
    IF \E k \in 1..Len(csv_content.lines) : ReaderRaises(csv_content.lines[k])
    THEN <<>>
    ELSE ParseRows(csv_content.has_volume, csv_content.lines)

\* the lines a file of the model is made of
LineFull == <<<<"u", "1">>, <<"a">>, <<"1", "0">>, <<"3">>>>
LineEuro == <<<<"u", "2">>, <<"b">>, <<Euro, "1", ",", "5">>, <<" ">>>>
LineNoVolume == <<<<"u", "1">>, <<"a">>, <<"1", "0">>>>
LineShort == <<<<"u", "2">>, <<"b">>>>
LineSuperscript == <<<<"u", "2">>, <<"b">>, <<"5">>, <<Superscript>>>>
LineWords == <<<<>>, <<" ", "c">>, <<"1", ".", "2", ",", "5">>, <<"-", "3">>>>
LineOversized == <<<<"u", "1">>, Oversized, <<"5">>, <<"1">>>>
Lines ==
    {LineFull, LineEuro, LineNoVolume, LineShort, LineSuperscript, LineWords,
     LineOversized}
CsvFiles ==
    [has_volume : BOOLEAN, lines : SeqsUpTo(Lines, MaxLines)]

\* parse_csv_data called on one file: rows is the file, all_products the list
\* it returns
InitParse ==
    /\ InitCommon
    /\ caller = "parse_csv_data"
    /\ rows \in CsvFiles
    /\ similarity_threshold = DefaultThreshold
    /\ inject = FALSE

ParseCall ==
    /\ pc = "request"
    /\ caller = "parse_csv_data"
    /\ all_products' = parse_csv_rows(rows)
    /\ pc' = "parsed"
    /\ UNCHANGED <<caller, rows, similarity_threshold, queue, running, finished,
                   images, valid_products, i, j, current_group, processed,
                   similar_groups, comparisons_made, comparisons_skipped,
                   image_hash_cache, similarity_result, filtered, scored,
                   inject, response>>

NextParse == ParseCall

SpecParse == InitParse /\ [][NextParse]_vars

\* ------------------------------------------------- parse_price on its own
\* parse_price applied to one price cell. A price as the export writes it is
\* an optional euro sign, digit groups joined by the thousands separator "."
\* and an optional decimal comma with decimals; its canonical form is the
\* digits of the groups, then "." and the decimals. rows holds the cell and,
\* for a price, <<canonical form>>; similarity_result holds the result.
FirstGroups == {<<"1">>, <<"1", "2">>, <<"7">>}
LaterGroups == {<<"2", "3", "4">>, <<"0", "0", "0">>}
Decimals == {<<>>, <<"5">>, <<"5", "0">>, <<"5", "6">>}
GroupSeqs ==
    {<<first>> \o rest :
        first \in FirstGroups, rest \in SeqsUpTo(LaterGroups, MaxGroups - 1)}
RECURSIVE Join(_, _)
Join(groups, sep) ==
    IF Len(groups) = 1 THEN groups[1]
    ELSE groups[1] \o sep \o Join(Tail(groups), sep)
Written(symbol, groups, decimals) ==
    symbol \o Join(groups, <<".">>)
           \o (IF decimals = <<>> THEN <<>> ELSE <<",">> \o decimals)
Canonical(groups, decimals) ==
    Join(groups, <<>>) \o (IF decimals = <<>> THEN <<>> ELSE <<".">> \o decimals)
PriceCells ==
    {[price_str |-> Written(symbol, groups, decimals),
      canonical |-> <<Canonical(groups, decimals)>>] :
        symbol \in {<<>>, <<Euro>>}, groups \in GroupSeqs, decimals \in Decimals}
\* cells that are no number at all
JunkCells ==
    {[price_str |-> text, canonical |-> <<>>] :
        text \in {<<>>, <<" ">>, <<"x">>, <<Euro>>, <<"1", " ", "2">>,
                  <<"1", ",", "5", ",", "0">>, <<"-">>, <<",">>}}

InitPrice ==
    /\ InitCommon
    /\ caller = "parse_price"
    /\ rows \in PriceCells \cup JunkCells
    /\ similarity_threshold = DefaultThreshold
    /\ inject = FALSE

PriceCall ==
    /\ pc = "request"
    /\ caller = "parse_price"
    /\ similarity_result' = <<parse_price(rows.price_str)>>
    /\ pc' = "priced"
    /\ UNCHANGED <<caller, rows, similarity_threshold, all_products, queue,
                   running, finished, images, valid_products, i, j,
                   current_group, processed, similar_groups, comparisons_made,
                   comparisons_skipped, image_hash_cache, filtered, scored,
                   inject, response>>

NextPrice == PriceCall

SpecPrice == InitPrice /\ [][NextPrice]_vars

\* --------------------------------------------------- the multipart request
\* upload_csv with the request spelled out: rows holds the request, that is
\* whether the form has a 'files' field and the files sent under it. A file
\* has a name and a content, which is bytes that decode as UTF-8 to the rows
\* given, or bytes that do not decode.
FileNames == {"", "a.csv", "a.txt"}
FileContents ==
    {[decodes |-> TRUE, rows |-> body] :
        body \in {<<>>, <<ShortRow>>, <<ProdA>>, <<ShortRow, ProdA>>}}
    \cup {[decodes |-> FALSE, rows |-> <<>>]}
Files == [filename : FileNames, content : FileContents]
NoFilesField == [has_files |-> FALSE, files |-> <<>>]
Requests ==
    {NoFilesField}
    \cup {[has_files |-> TRUE, files |-> fs] :
             fs \in UNION {[1..k -> Files] : k \in 1..MaxFiles}}

\* line 340
IsCsv(file) == file.filename = "a.csv"
\* line 333
NoneSelected(files) ==
    files = <<>> \/ \A k \in 1..Len(files) : files[k].filename = ""
\* line 342: file.read().decode('utf-8') raises UnicodeDecodeError
DecodeRaises(files) ==
    \E k \in 1..Len(files) : IsCsv(files[k]) /\ ~files[k].content.decodes
\* lines 339-346: all_products.extend(products) over the files in order
RECURSIVE ExtendAll(_)
ExtendAll(files) ==
    IF files = <<>> THEN <<>>
    ELSE (IF IsCsv(Head(files))
          THEN parse_csv_data(Head(files).content.rows)
          ELSE <<>>) \o ExtendAll(Tail(files))

Reject(status) ==
    /\ response' = status
    /\ pc' = "done"
    /\ rows' = <<>>
    /\ UNCHANGED <<caller, similarity_threshold, all_products, queue, running,
                   finished, images, valid_products, i, j, current_group,
                   processed, similar_groups, comparisons_made,
                   comparisons_skipped, image_hash_cache, similarity_result,
                   filtered, scored, inject>>

\* upload_csv, lines 326-352 and 375-376
upload_csv_request ==
    /\ pc = "request"
    /\ caller = "upload_csv"
    /\ IF ~rows.has_files
       THEN Reject("400")
       ELSE IF NoneSelected(rows.files)
       THEN Reject("400")
       ELSE IF DecodeRaises(rows.files)
       THEN Reject("500")
       ELSE IF ExtendAll(rows.files) = <<>>
       THEN Reject("400")
       ELSE EnterFind(ExtendAll(rows.files)) /\ UNCHANGED response

InitUpload ==
    /\ InitCommon
    /\ caller = "upload_csv"
    /\ rows \in Requests
    /\ similarity_threshold = DefaultThreshold
    /\ inject = FALSE

NextUpload ==
    \/ upload_csv_request
    \/ \E idx \in 1..MaxFiles : Complete(idx)
    \/ \E idx \in 1..MaxFiles : Yield(idx)
    \/ SeedStep
    \/ CandStep
    \/ EndSeed
    \/ Finish

SpecUpload == InitUpload /\ [][NextUpload]_vars

\* ------------------------------------------- listings the filter rejects
\* An upload whose rows are three listings that differ pairwise: ProdE shares
\* no word with ProdA and costs three times as much, ProdF has ProdA's title
\* at ProdE's price.
ProdE == [image_url |-> "u2", title |-> <<"c">>, price_numeric |-> 30]
ProdF == [image_url |-> "u2", title |-> <<"a", " ", "b">>, price_numeric |-> 30]
FilterCatalogue == {ProdA, ProdE, ProdF}

InitFilter ==
    /\ InitCommon
    /\ caller = "upload_csv"
    /\ rows \in SeqsUpTo(FilterCatalogue, MaxFilterRecords)
    /\ similarity_threshold = DefaultThreshold
    /\ inject = FALSE

NextFilter ==
    \/ upload_csv
    \/ \E idx \in 1..MaxFilterRecords : Complete(idx)
    \/ \E idx \in 1..MaxFilterRecords : Yield(idx)
    \/ SeedStep
    \/ CandStep
    \/ EndSeed
    \/ Finish

SpecFilter == InitFilter /\ [][NextFilter]_vars

\* The same uploads with the request thread running on: the clustering loop
\* is sequential code, each of its steps is taken once it can be.
SpecTerminate ==
    /\ SpecFilter
    /\ WF_vars(SeedStep)
    /\ WF_vars(CandStep)
    /\ WF_vars(EndSeed)
    /\ WF_vars(Finish)

\* ----------------------------------------------- the worker pool under load
\* A direct call with up to MaxPoolTasks copies of one record whose host never
\* answers, followed to the end of the download phase. The downloads are
\* copies of one another, so schedules that differ only in which copy moves
\* are interchangeable: of the downloads in flight the oldest completes, of
\* the completed ones the oldest is yielded; completions and yields still
\* interleave freely.
ProdDead ==
    [image_url |-> "dead", title |-> <<"a", " ", "b">>, price_numeric |-> 10]
Oldest(S) == {x \in S : \A y \in S : x <= y}

InitPool ==
    /\ InitCommon
    /\ caller = "direct"
    /\ rows \in {[k \in 1..n |-> ProdDead] : n \in 0..MaxPoolTasks}
    /\ similarity_threshold = DefaultThreshold
    /\ inject = FALSE

PoolComplete == \E idx \in Oldest(running) : Complete(idx)
PoolYield == \E idx \in Oldest(DOMAIN finished) : Yield(idx)

NextPool ==
    \/ DirectCall
    \/ PoolComplete
    \/ PoolYield

\* a started download ends (requests.get has a timeout) and the request thread
\* keeps taking completed futures
SpecPool ==
    /\ InitPool
    /\ [][NextPool]_vars
    /\ WF_vars(DirectCall)
    /\ WF_vars(PoolComplete)
    /\ WF_vars(PoolYield)

\* ------------------------------------------------- the scorer on its own
\* calculate_comprehensive_similarity applied to one pair of records: the pair
\* is all_products[1], all_products[2], their images are images[1], images[2].
\* Prices are what parse_price can return, negative ones included
\* (float("-5.00") for the cell "\u20ac-5,00").
ScoreTitles ==
    {<<>>, <<" ">>, <<"a">>, <<"b">>, <<"a", " ", "b">>, <<"A", " ", "c">>}
ScorePrices == {-10, -5, 0, 4, 5, 10}
ScoreUrls == {"", "u1", "u2"}
ScoreProducts ==
    [image_url : ScoreUrls, title : ScoreTitles, price_numeric : ScorePrices]
\* the process-wide cache as earlier requests of the process can leave it
ScoreCaches == {EmptyMap, "u1" :> phash("Y")}
ImageMaps == UNION {[D -> Images] : D \in SUBSET {1, 2}}

InitScore ==
    /\ pc = "score"
    /\ caller = "direct"
    /\ rows = <<>>
    /\ similarity_threshold = DefaultThreshold
    /\ all_products \in [1..2 -> ScoreProducts]
    /\ images \in ImageMaps
    /\ image_hash_cache \in ScoreCaches
    /\ queue = <<>>
    /\ running = {}
    /\ finished = EmptyMap
    /\ valid_products = <<>>
    /\ i = 0
    /\ j = 0
    /\ current_group = <<>>
    /\ processed = {}
    /\ similar_groups = <<>>
    /\ comparisons_made = 0
    /\ comparisons_skipped = 0
    /\ similarity_result = <<>>
    /\ filtered = {}
    /\ scored = {}
    /\ inject = FALSE
    /\ response = "none"

ScoreCall ==
    /\ pc = "score"
    /\ LET call == calculate_comprehensive_similarity(
                       all_products[1], all_products[2], ImageOf(images, 1),
                       ImageOf(images, 2), image_hash_cache, inject)
       IN  /\ similarity_result' = <<call[1]>>
           /\ image_hash_cache' = call[2]
    /\ pc' = "scored"
    /\ UNCHANGED <<caller, rows, similarity_threshold, all_products, queue,
                   running, finished, images, valid_products, i, j,
                   current_group, processed, similar_groups, comparisons_made,
                   comparisons_skipped, filtered, scored, inject, response>>

NextScore == ScoreCall

SpecScore == InitScore /\ [][NextScore]_vars

\* ------------------------------------------------ the scorer, both orders
\* calculate_comprehensive_similarity on a pair whose images were both
\* downloaded; a download may have given an image that cannot be hashed.
SwapProducts ==
    [image_url : {"u1", "u2"},
     title : {<<"a", " ", "b">>, <<"A", " ", "c">>},
     price_numeric : {5, 10}]

InitSwap ==
    /\ pc = "score"
    /\ caller = "direct"
    /\ rows = <<>>
    /\ similarity_threshold = DefaultThreshold
    /\ all_products \in [1..2 -> SwapProducts]
    /\ images \in [1..2 -> Images \cup {Broken}]
    /\ image_hash_cache \in ScoreCaches
    /\ queue = <<>>
    /\ running = {}
    /\ finished = EmptyMap
    /\ valid_products = <<>>
    /\ i = 0
    /\ j = 0
    /\ current_group = <<>>
    /\ processed = {}
    /\ similar_groups = <<>>
    /\ comparisons_made = 0
    /\ comparisons_skipped = 0
    /\ similarity_result = <<>>
    /\ filtered = {}
    /\ scored = {}
    /\ inject = FALSE
    /\ response = "none"

NextSwap == ScoreCall

SpecSwap == InitSwap /\ [][NextSwap]_vars

\* ------------------------------------------- the hash cache across calls
\* calculate_image_hash called again and again in one process, as the requests
\* of the process do one after the other: the record hashed is all_products[1],
\* its image is images[1], similarity_result holds the returned hash and
\* comparisons_made counts the calls.
HashImages == Images \cup {Broken}

InitCache ==
    /\ InitCommon
    /\ caller = "direct"
    /\ rows = <<>>
    /\ similarity_threshold = DefaultThreshold
    /\ inject = FALSE

HashCall ==
    /\ pc \in {"request", "hashed"}
    /\ comparisons_made < MaxHashCalls
    /\ \E image \in HashImages, url \in ScoreUrls :
           LET call == calculate_image_hash(image, url, image_hash_cache)
           IN  /\ all_products' =
                      <<[image_url |-> url, title |-> <<>>, price_numeric |-> 0]>>
               /\ images' = (1 :> image)
               /\ similarity_result' = <<call[1]>>
               /\ image_hash_cache' = call[2]
    /\ comparisons_made' = comparisons_made + 1
    /\ pc' = "hashed"
    /\ UNCHANGED <<caller, rows, similarity_threshold, queue, running, finished,
                   valid_products, i, j, current_group, processed,
                   similar_groups, comparisons_skipped, filtered, scored,
                   inject, response>>

NextCache == HashCall

SpecCache == InitCache /\ [][NextCache]_vars

\* -------------------------------------------------------- the title scraper
\* scrape_ebay_titles of src/src/routes/title_scraper.py. rows holds the
\* arguments [url, max_pages]; i is page_num and j is attempt, 0-based as in
\* the code; current_group is <<current_url>>; queue is the log of the calls
\* of session.get, each [url, attempt, ok]; comparisons_made is
\* len(all_titles). A URL is a page number, the next-page link of page u,
\* when the page has one, leads to u + 1. The sleeps are left out.
max_retries == 3
PageCap == 4
TitleTarget == 200
\* the new titles one page can add
PageYields == {0, 100, 200}
Pages(max_pages) == IF max_pages < PageCap THEN max_pages ELSE PageCap

ScrapeFrame ==
    UNCHANGED <<caller, rows, similarity_threshold, all_products, running,
                finished, images, valid_products, processed, similar_groups,
                comparisons_skipped, image_hash_cache, similarity_result,
                filtered, scored, inject, response>>

\* lines 43-49
ScrapeCall ==
    /\ pc = "request"
    /\ caller = "scrape_ebay_titles"
    /\ current_group' = <<rows.url>>
    /\ i' = 0
    /\ j' = 0
    /\ pc' = IF 0 < Pages(rows.max_pages) THEN "get" ELSE "scraped"
    /\ UNCHANGED <<queue, comparisons_made>>
    /\ ScrapeFrame

\* line 49: the for loop takes the next page_num or is exhausted
NextIteration ==
    /\ i' = i + 1
    /\ j' = 0
    /\ pc' = IF i + 1 < Pages(rows.max_pages) THEN "get" ELSE "scraped"

\* lines 60-66 and 157-159: session.get or raise_for_status raises
GetFails ==
    /\ pc = "get"
    /\ queue' = Append(queue, [url |-> current_group[1], attempt |-> j, ok |-> FALSE])
    /\ IF j = max_retries - 1
       THEN NextIteration
       ELSE j' = j + 1 /\ UNCHANGED <<pc, i>>
    /\ UNCHANGED <<current_group, comparisons_made>>
    /\ ScrapeFrame

\* lines 60-62 and 68-155: the page is fetched, its titles are collected and
\* its next-page link is followed
GetSucceeds ==
    /\ pc = "get"
    /\ queue' = Append(queue, [url |-> current_group[1], attempt |-> j, ok |-> TRUE])
    /\ \E new \in PageYields, next_page_link \in {<<>>, <<current_group[1] + 1>>} :
           LET all_titles == IF comparisons_made + new < TitleTarget
                             THEN comparisons_made + new ELSE TitleTarget
           IN  /\ comparisons_made' = all_titles
               /\ IF all_titles >= TitleTarget
                  THEN pc' = "scraped" /\ UNCHANGED <<i, j, current_group>>
                  ELSE IF next_page_link # <<>> /\ i < rows.max_pages - 1
                  THEN current_group' = next_page_link /\ NextIteration
                  ELSE pc' = "scraped" /\ UNCHANGED <<i, j, current_group>>
    /\ ScrapeFrame

InitScrape ==
    /\ InitCommon
    /\ caller = "scrape_ebay_titles"
    /\ rows \in [url : {1}, max_pages : 0..MaxPagesArg]
    /\ similarity_threshold = DefaultThreshold
    /\ inject = FALSE

NextScrape ==
    \/ ScrapeCall
    \/ GetFails
    \/ GetSucceeds

SpecScrape == InitScrape /\ [][NextScrape]_vars

\* ================================================================== claims
Clustering == pc \in {"seed", "cand", "done"} /\ all_products # <<>>
Done == pc = "done"
\* the groups built so far, the one under construction included
GroupsSoFar ==
    IF current_group = <<>> THEN similar_groups
    ELSE Append(similar_groups, current_group)
MemberIndices(g) == {g[k].index : k \in 2..Len(g)}
NonSeedMembers == UNION {MemberIndices(GroupsSoFar[g]) : g \in 1..Len(GroupsSoFar)}
FetchFailed(idx) == idx \in Submitted(all_products) /\ idx \notin DOMAIN images

\* C1: whenever at least one row of an upload parses, upload_csv answers with
\* an AnalysisResult (status 200), never with an internal failure.
C1_AlwaysAnalysisResult ==
    (Done /\ caller = "upload_csv" /\ Len(all_products) >= 1) => response = "200"

\* C2: the emitted groups are pairwise disjoint: an original index appears in
\* at most one group, and at most once in it.
C2_GroupsDisjoint ==
    \A g, h \in 1..Len(GroupsSoFar) :
        \A k \in 1..Len(GroupsSoFar[g]), l \in 1..Len(GroupsSoFar[h]) :
            GroupsSoFar[g][k].index = GroupsSoFar[h][l].index => (g = h /\ k = l)

C2_Witness ==
    Done /\ Len(similar_groups) = 2 /\ Len(valid_products) = MaxRecords

\* C3: two rows with identical title and price and an empty imageUrl give one
\* group of size 2 whose member has imageSimilarity 0 and comprehensiveScore
\* 0.6; records with an empty imageUrl are in the candidate set.
C3_ImagelessRowsClustered ==
    /\ Clustering =>
          \A idx \in 1..Len(all_products) :
              all_products[idx].image_url = "" =>
                  \E k \in 1..Len(valid_products) : valid_products[k] = idx
    /\ (Done /\ all_products = <<ProdC, ProdC>>) =>
          /\ Len(similar_groups) = 1
          /\ Len(similar_groups[1]) = 2
          /\ similar_groups[1][2].similarity_details.image_similarity = Zero
          /\ FEq(similar_groups[1][2].similarity_details.comprehensive_score,
                 Frac(6, 10))

\* C4: a batch of N >= 2 identical rows gives exactly one group holding all N
\* records, seeded by the first row of the input.
C4_IdenticalRowsOneGroup ==
    (Done /\ Len(all_products) >= 2
          /\ \A k \in 1..Len(all_products) : all_products[k] = all_products[1])
    => /\ Len(similar_groups) = 1
       /\ Len(similar_groups[1]) = Len(all_products)
       /\ similar_groups[1][1].index = 1

\* C5: the result does not depend on the order in which the downloads
\* complete; it is therefore the result of the run in which they complete in
\* submission order, where the groups come in the input order of their seeds
\* and every seed precedes the members of its group in the input.
C5_CompletionOrderIrrelevant ==
    Done =>
        /\ \A g \in 1..Len(similar_groups) - 1 :
               similar_groups[g][1].index < similar_groups[g + 1][1].index
        /\ \A g \in 1..Len(similar_groups) :
               \A m \in MemberIndices(similar_groups[g]) :
                   similar_groups[g][1].index < m

\* C7: a record whose download fails (None, or an exception out of the task)
\* is in the candidate set exactly once, every scoring it takes part in has
\* image_similarity 0, the download phase answers nothing by itself, and an
\* internal failure can only come from a batch of fewer than two candidates,
\* whatever the downloads did.
C7_FailedFetchKept ==
    /\ Clustering =>
          \A idx \in Submitted(all_products) :
              Cardinality({k \in 1..Len(valid_products) : valid_products[k] = idx}) = 1
    /\ \A c \in scored :
          (FetchFailed(c[1]) \/ FetchFailed(c[2])) => c[3].image_similarity = Zero
    /\ pc = "fetch" => response = "none"
    /\ response = "500" => Cardinality(Submitted(all_products)) < 2

C7_Witness ==
    /\ Done
    /\ response = "200"
    /\ \E c \in scored : FetchFailed(c[1]) /\ ~FetchFailed(c[2])
    /\ \E g \in 1..Len(similar_groups) :
           \E m \in MemberIndices(similar_groups[g]) : FetchFailed(m)

\* C8: an admitted candidate was scored against the seed of its group, passed
\* the quick filter against it and reached the effective threshold (0.4 when
\* title and price similarity both exceed 0.8, else the caller's threshold,
\* 0.5 by default); it was never compared with another member of the group,
\* and no two non-seed members are ever compared.
C8_EffectiveThreshold(d) ==
    IF Lt(Frac(8, 10), d.title_similarity) /\ Lt(Frac(8, 10), d.price_similarity)
    THEN Frac(4, 10)
    ELSE similarity_threshold

C8_AdmittedAgainstSeedOnly ==
    /\ caller = "upload_csv" => similarity_threshold = Frac(5, 10)
    /\ \A g \in 1..Len(GroupsSoFar) :
          LET grp == GroupsSoFar[g]
              seed == grp[1].index
          IN  \A k \in 2..Len(grp) :
                  LET d == grp[k].similarity_details
                  IN  /\ <<seed, grp[k].index, d>> \in scored
                      /\ <<seed, grp[k].index>> \in filtered
                      /\ quick_filter_by_title_and_price(all_products[seed],
                                                         all_products[grp[k].index])
                      /\ Leq(C8_EffectiveThreshold(d), d.comprehensive_score)
                      /\ \A l \in 2..Len(grp) :
                             <<grp[l].index, grp[k].index>> \notin filtered
    /\ \A c \in filtered : ~(c[1] \in NonSeedMembers /\ c[2] \in NonSeedMembers)
    /\ \A c \in scored : <<c[1], c[2]>> \in filtered

\* a member admitted by the relaxed threshold alone, in a group of three
C8_Witness ==
    /\ Done
    /\ \E g \in 1..Len(similar_groups) :
           /\ Len(similar_groups[g]) >= 3
           /\ \E k \in 2..Len(similar_groups[g]) :
                  Lt(similar_groups[g][k].similarity_details.comprehensive_score,
                     similarity_threshold)

\* C9: an emitted group has at least two members; the first one is the seed
\* and has no similarity_details; every other one carries the result of its
\* scoring against that seed.
C9_GroupShape ==
    \A g \in 1..Len(similar_groups) :
        LET grp == similar_groups[g]
        IN  /\ Len(grp) >= 2
            /\ "similarity_details" \notin DOMAIN grp[1]
            /\ \A k \in 2..Len(grp) :
                   /\ "similarity_details" \in DOMAIN grp[k]
                   /\ <<grp[1].index, grp[k].index, grp[k].similarity_details>>
                          \in scored
                   /\ grp[k].product = all_products[grp[k].index]

\* a seed that found no match has been passed over and a group emitted
C9_Witness ==
    /\ Done
    /\ Len(similar_groups) = 1
    /\ Cardinality(processed) > Len(similar_groups[1])
    /\ similar_groups[1][1].index # valid_products[1]

InUnit(x) == Leq(Zero, x) /\ Leq(x, One)

\* C10: for every pair of records the normalizer can produce,
\* calculate_comprehensive_similarity returns a comprehensive_score and
\* image, title and price similarities that all lie in [0, 1].
C10_ScoresBounded ==
    pc = "scored" =>
        /\ InUnit(similarity_result[1].comprehensive_score)
        /\ InUnit(similarity_result[1].image_similarity)
        /\ InUnit(similarity_result[1].title_similarity)
        /\ InUnit(similarity_result[1].price_similarity)

\* C11: the quick filter is a necessary condition of acceptance: a pair whose
\* score reaches its effective threshold passes the quick filter with the
\* default limits (min_title_similarity 0.3, max_price_diff 0.5).
C11_FilterNecessary ==
    pc = "scored" =>
        (Accepts(similarity_result[1], similarity_threshold)
            => quick_filter_by_title_and_price(all_products[1], all_products[2]))

\* C12: within a batch every distinct image URL is downloaded by one task
\* only: two downloads of the batch never have the same URL.
Issued ==
    running \cup Range(queue) \cup DOMAIN finished \cup Range(valid_products)
C12_OneFetchPerUrl ==
    \A a, b \in Issued :
        a # b => all_products[a].image_url # all_products[b].image_url

\* C13: while a download of the batch is outstanding (queued, in flight, or
\* completed and not yet taken from as_completed) the request is in its
\* download phase: no quick-filter call and no scoring has happened, and no
\* step calls them or touches the hash cache.
Outstanding == running # {} \/ queue # <<>> \/ DOMAIN finished # {}
C13_PhasesSequenced ==
    /\ [](Outstanding =>
            /\ pc = "fetch"
            /\ filtered = {} /\ scored = {}
            /\ comparisons_made = 0 /\ comparisons_skipped = 0)
    /\ [](filtered # {} =>
            /\ ~Outstanding
            /\ Range(valid_products) = Submitted(all_products))
    /\ [][Outstanding =>
            /\ image_hash_cache' = image_hash_cache
            /\ filtered' = filtered /\ scored' = scored
            /\ similarity_result' = similarity_result]_vars

C13_Witness ==
    /\ pc = "cand"
    /\ scored # {}
    /\ image_hash_cache # EmptyMap
    /\ Len(valid_products) = MaxRecords
    /\ \E idx \in Range(valid_products) : FetchFailed(idx)

\* C14: at every moment of the download phase at most 20 downloads are in
\* flight, and every record with a non-empty image URL is eventually
\* downloaded and handed to clustering, also when more than 20 are submitted.
C14_PoolBounded ==
    /\ [](Cardinality(running) <= 20)
    /\ [](pc \notin {"request", "fetch"} =>
            /\ Range(valid_products) = Submitted(all_products)
            /\ Len(valid_products) = Cardinality(Submitted(all_products)))
    /\ (pc = "fetch" ~> pc = "seed")

C14_Witness ==
    /\ pc = "fetch"
    /\ Cardinality(running) = 20
    /\ queue = <<>>
    /\ Len(valid_products) >= 1

\* C15: the hash cache is write-once: an entry, once stored for a non-empty
\* URL, is never removed or replaced; a later call for that URL returns the
\* stored hash whatever image it is given; a call whose hash computation fails
\* returns no hash and stores nothing; no entry is stored for the empty URL.
C15_CacheWriteOnce ==
    /\ []("" \notin DOMAIN image_hash_cache)
    /\ [](\A u \in DOMAIN image_hash_cache : image_hash_cache[u] # NoHash)
    /\ [][/\ \A u \in DOMAIN image_hash_cache :
                /\ u \in DOMAIN image_hash_cache'
                /\ image_hash_cache'[u] = image_hash_cache[u]
          /\ \A u \in DOMAIN image_hash_cache :
                (pc' = "hashed" /\ all_products'[1].image_url = u)
                    => similarity_result' = <<image_hash_cache[u]>>
          /\ (pc' = "hashed" /\ similarity_result' = <<NoHash>>)
                => image_hash_cache' = image_hash_cache
          /\ (/\ pc' = "hashed"
              /\ all_products'[1].image_url \notin DOMAIN image_hash_cache
              /\ images'[1] = Broken)
                => /\ similarity_result' = <<NoHash>>
                   /\ image_hash_cache' = image_hash_cache]_vars

C15_Witness ==
    /\ pc = "hashed"
    /\ comparisons_made >= 2
    /\ all_products[1].image_url = "u2"
    /\ images[1] = "Y"
    /\ similarity_result = <<phash("X")>>
    /\ "u2" \in DOMAIN image_hash_cache
    /\ image_hash_cache["u2"] = phash("X")

\* C16: a pair the quick filter rejects (title similarity below 0.3, or both
\* prices positive and differing by more than half of the larger) is never
\* scored: the step that meets it only counts it as skipped and leaves the
\* hash cache, the processed set and the group as they were; two rows with
\* disjoint titles and prices more than 50% apart end ungrouped.
FilterRejects(product1, product2) ==
    \/ Lt(calculate_title_similarity(product1.title, product2.title), Frac(3, 10))
    \/ /\ product1.price_numeric > 0
       /\ product2.price_numeric > 0
       /\ 2 * Abs(product1.price_numeric - product2.price_numeric)
              > PyMax(product1.price_numeric, product2.price_numeric)
RejectedPairAhead ==
    /\ pc = "cand"
    /\ j <= Len(valid_products)
    /\ valid_products[j] \notin processed
    /\ FilterRejects(all_products[valid_products[i]],
                     all_products[valid_products[j]])
C16_RejectedNeverScored ==
    /\ [](\A s \in scored : ~FilterRejects(all_products[s[1]], all_products[s[2]]))
    /\ [][RejectedPairAhead =>
            /\ image_hash_cache' = image_hash_cache
            /\ processed' = processed
            /\ current_group' = current_group
            /\ scored' = scored
            /\ similarity_result' = similarity_result
            /\ comparisons_made' = comparisons_made]_vars
    /\ []((pc = "done" /\ all_products = <<ProdA, ProdE>>) =>
            /\ similar_groups = <<>>
            /\ scored = {}
            /\ image_hash_cache = EmptyMap
            /\ comparisons_skipped = 1)

C16_Witness ==
    /\ pc = "done"
    /\ all_products = <<ProdA, ProdE>>
    /\ Len(valid_products) = 2
    /\ DOMAIN images = {1, 2}
    /\ comparisons_skipped = 1
    /\ similar_groups = <<>>

\* C17: a scoring call that raises gives the all-zero result for its pair;
\* the step that made it neither admits the candidate nor marks it processed
\* and goes on with the next candidate, and the batch is answered. A logged
\* result is either that all-zero result or made of the pair's own title and
\* price similarity.
AllZero(result) ==
    /\ result.comprehensive_score[1] = 0
    /\ result.image_similarity[1] = 0
    /\ result.title_similarity[1] = 0
    /\ result.price_similarity[1] = 0
OwnScore(product1, product2, result) ==
    /\ result.title_similarity =
           calculate_title_similarity(product1.title, product2.title)
    /\ result.price_similarity =
           calculate_price_similarity(product1.price_numeric, product2.price_numeric)
    /\ result.comprehensive_score =
           WeightedSum(result.image_similarity, result.title_similarity,
                       result.price_similarity)
    /\ ~AllZero(result)
ScoredJustNow ==
    /\ comparisons_made' = comparisons_made + 1
    /\ similarity_result' # <<>>
    /\ AllZero(similarity_result'[1])
C17_ScoringErrorIsolated ==
    /\ [](\A s \in scored :
            \/ AllZero(s[3])
            \/ OwnScore(all_products[s[1]], all_products[s[2]], s[3]))
    /\ [][ScoredJustNow =>
            /\ processed' = processed
            /\ current_group' = current_group
            /\ similar_groups' = similar_groups
            /\ pc' = "cand"
            /\ i' = i
            /\ j' = j + 1
            /\ <<valid_products[i], valid_products[j], similarity_result'[1]>>
                   \in scored']_vars
    /\ []((Done /\ scored # {}) => response = "200")

C17_Witness ==
    /\ Done
    /\ response = "200"
    /\ \E s \in scored :
           /\ AllZero(s[3])
           /\ s[2] \in NonSeedMembers
           /\ \E t \in scored : t[2] = s[2] /\ ~AllZero(t[3])

\* C18: a request without files, or one of whose files no row parses, is
\* answered with the client error 400, and no download and no comparison is
\* started for it.
RowsThatParse(request) ==
    ExtendAll(SelectSeq(request.files, LAMBDA f : f.content.decodes))
C18_InputErrorsAreClientErrors ==
    [][(/\ pc = "request"
        /\ \/ ~rows.has_files
           \/ NoneSelected(rows.files)
           \/ RowsThatParse(rows) = <<>>)
          => /\ response' = "400"
             /\ pc' = "done"
             /\ running' = {} /\ queue' = <<>>
             /\ filtered' = {} /\ scored' = {}]_vars

\* C19: parse_csv_data returns the records of exactly those rows that parse
\* without raising, in row order: a row that raises is dropped alone, and
\* every other row of the file, before and after it, is returned.
RECURSIVE RowsInOrder(_, _)
RowsInOrder(has_volume, lines) ==
    IF lines = <<>> THEN <<>>
    ELSE (IF ReaderRaises(Head(lines)) THEN <<>>
          ELSE ParseRow(has_volume, Head(lines)))
         \o RowsInOrder(has_volume, Tail(lines))
C19_RowFailuresIsolated ==
    pc = "parsed" => all_products = RowsInOrder(rows.has_volume, rows.lines)

\* C20: a row that lacks only its sales volume (no such column, a blank cell,
\* or no cell at the end of a short row) gives a record of volume 1, and every
\* record has total_sales = price_numeric * volume_numeric.
LacksVolume(has_volume, line) ==
    /\ Len(line) >= 3
    /\ ~ReaderRaises(line)
    /\ \/ ~has_volume
       \/ Len(line) = 3
       \/ Strip(line[4]) = <<>>
C20_MissingVolumeIsOne ==
    pc = "parsed" =>
        /\ (Len(rows.lines) = 1 /\ LacksVolume(rows.has_volume, rows.lines[1]))
              => /\ Len(all_products) = 1
                 /\ all_products[1].volume_numeric = 1
        /\ \A k \in 1..Len(all_products) :
              FEq(all_products[k].total_sales,
                  Frac(all_products[k].price_numeric[1]
                           * all_products[k].volume_numeric,
                       all_products[k].price_numeric[2]))

\* C21: parse_price gives a price written with a leading euro sign, thousands
\* separators and a decimal comma the number of its canonical form, and gives
\* 0.0 for a cell that is no number.
C21_PriceCanonical ==
    pc = "priced" =>
        IF rows.canonical = <<>>
        THEN similarity_result = <<Zero>>
        ELSE FEq(similarity_result[1], FloatOf(rows.canonical[1]))

\* C22: a non-empty title, one of whitespace only included, has similarity 1
\* with itself, and two titles whose lower-cased word sets are disjoint have
\* similarity 0.
C22_TitleSimilarityEnds ==
    pc = "scored" =>
        LET title1 == all_products[1].title
            title2 == all_products[2].title
            title_similarity == similarity_result[1].title_similarity
        IN  /\ (title1 = title2 /\ title1 # <<>>) => FEq(title_similarity, One)
            /\ (Split(LowerStr(title1)) \cap Split(LowerStr(title2)) = {})
                  => FEq(title_similarity, Zero)

\* C23: a scored pair whose title and price similarity both exceed 0.8 is
\* admitted to the seed's group whatever its image similarity and whatever the
\* caller's threshold; and a scored pair whose score reaches the caller's
\* threshold is admitted, so the relaxed threshold never rejects what the
\* caller's threshold accepts, also for a caller's threshold below 0.4.
RuleFires(result) ==
    /\ 10 * result.title_similarity[1] > 8 * result.title_similarity[2]
    /\ 10 * result.price_similarity[1] > 8 * result.price_similarity[2]
AdmittedTo(seed, candidate) ==
    /\ candidate \in processed
    /\ \E g \in 1..Len(GroupsSoFar) :
           /\ GroupsSoFar[g][1].index = seed
           /\ candidate \in MemberIndices(GroupsSoFar[g])
C23_RuleAlwaysAdmits ==
    (pc \in {"cand", "seed", "done"}) =>
        \A s \in scored :
            /\ RuleFires(s[3]) => AdmittedTo(s[1], s[2])
            /\ Leq(similarity_threshold, s[3].comprehensive_score)
                  => AdmittedTo(s[1], s[2])

C23_Witness ==
    /\ Done
    /\ Lt(similarity_threshold, Frac(4, 10))
    /\ \E s \in scored :
           /\ RuleFires(s[3])
           /\ s[3].image_similarity = Zero
           /\ AdmittedTo(s[1], s[2])
    /\ \E s \in scored : ~RuleFires(s[3]) /\ ~AdmittedTo(s[1], s[2])

\* C24: in every group the seed comes before each member in the order of
\* valid_products; a record the outer loop has passed is marked processed; and
\* a processed record that is no member of a group never becomes one.
Pos(idx) == CHOOSE k \in 1..Len(valid_products) : valid_products[k] = idx
C24_SeedComesFirst ==
    /\ [](Clustering =>
            \A g \in 1..Len(GroupsSoFar) :
                \A m \in MemberIndices(GroupsSoFar[g]) :
                    Pos(GroupsSoFar[g][1].index) < Pos(m))
    /\ [](Clustering =>
            \A k \in 1..Len(valid_products) :
                (k < i \/ (k = i /\ pc = "cand")) => valid_products[k] \in processed)
    /\ [][\A idx \in processed :
            idx \notin NonSeedMembers => idx \notin NonSeedMembers']_vars

C24_Witness ==
    /\ Done
    /\ \E k, l \in 1..Len(valid_products) :
           /\ k < l
           /\ valid_products[k] \in processed
           /\ valid_products[k] \notin NonSeedMembers
           /\ \A g \in 1..Len(similar_groups) :
                  similar_groups[g][1].index # valid_products[k]
           /\ \E g \in 1..Len(similar_groups) :
                  /\ similar_groups[g][1].index = valid_products[l]
                  /\ MemberIndices(similar_groups[g]) # {}
           /\ \E s \in scored : s[1] = valid_products[k]

\* C25: a pair of candidates is evaluated at most once and never in both
\* orders, so comparisons_made + comparisons_skipped is at most n(n-1)/2 for
\* the n records of valid_products; a record becomes a seed only while it is
\* unprocessed and is processed from then on; the clustering loop ends.
C25_PairsOnceAndTerminates ==
    /\ [](comparisons_made + comparisons_skipped = Cardinality(filtered))
    /\ [](\A p \in filtered : p[1] # p[2] /\ <<p[2], p[1]>> \notin filtered)
    /\ [](2 * (comparisons_made + comparisons_skipped)
              <= Len(valid_products) * (Len(valid_products) - 1)
          \/ pc \in {"request", "fetch"})
    /\ [][(pc = "seed" /\ pc' = "cand") =>
              /\ valid_products[i] \notin processed
              /\ valid_products[i] \in processed']_vars
    /\ [][processed \subseteq processed']_vars
    /\ ((pc \in {"seed", "cand"}) ~> (pc = "done"))

C25_Witness ==
    /\ Done
    /\ Len(valid_products) = 3
    /\ comparisons_made >= 1
    /\ comparisons_skipped >= 1
    /\ comparisons_made + comparisons_skipped = 3

\* C26: with the same images and the same hash cache, scoring the pair (a, b)
\* gives the result of scoring (b, a), and the quick filter gives both orders
\* the same verdict.
C26_ScoringSymmetric ==
    [][(pc = "score" /\ pc' = "scored") =>
          /\ similarity_result'[1] =
                 calculate_comprehensive_similarity(
                     all_products[2], all_products[1], ImageOf(images, 2),
                     ImageOf(images, 1), image_hash_cache, inject)[1]
          /\ quick_filter_by_title_and_price(all_products[1], all_products[2])
                 = quick_filter_by_title_and_price(all_products[2], all_products[1])]_vars

\* C27: in one call of scrape_ebay_titles no URL is requested more than 3
\* times, and the request that follows a third failed attempt goes to a
\* URL other than the one that just failed.
C27_FailedPageSkipped ==
    /\ \A u \in {queue[k].url : k \in 1..Len(queue)} :
           Cardinality({k \in 1..Len(queue) : queue[k].url = u}) <= 3
    /\ \A k \in 1..(Len(queue) - 1) :
           (queue[k].attempt = 2 /\ ~queue[k].ok) => queue[k + 1].url # queue[k].url

====
